---- MODULE Spec2Model ----
(***************************************************************************)
(* Model of light/postprocess.go: the CHT and BloomTrie chain indexer      *)
(* backends (Reset / Process / Commit) over a shared key-value store.      *)
(***************************************************************************)
EXTENDS Integers, Sequences, FiniteSets, TLC

(* ---------------------------------------------------------------------- *)
(* Program constants (postprocess.go:37-42, 180-184)                       *)
(* ---------------------------------------------------------------------- *)
ChtFrequency == 32768
ChtV1Frequency == 4096
BloomTrieFrequency == 32768
ethBloomBitsSection == 4096

(* ---------------------------------------------------------------------- *)
(* Bounds of the model                                                     *)
(* ---------------------------------------------------------------------- *)
\* sections 0..MaxSection are offered to Reset
MaxSection == 1
\* number of bloom bit positions iterated by Commit (types.BloomBitLength
\* is 2048 in the program; the loop body is the same for every position)
BloomBitLength == 2
\* headers handed to Process between two Resets
MaxHdrs == 2
\* number of root records the store may hold
MaxRecords == 2

(* ---------------------------------------------------------------------- *)
(* Hashes, headers                                                         *)
(* ---------------------------------------------------------------------- *)
\* common.Hash{} : the zero hash
ZeroHash == <<>>

\* a header of the chain: block number and a fork tag; Hash() is injective
Header(n, f) == [Number |-> n, Fork |-> f]
HeaderHash(h) == <<"hdr", h.Number, h.Fork>>

\* 8-byte big-endian encoding (binary.BigEndian.PutUint64)
RECURSIVE BigEndian(_, _)
BigEndian(n, w) == IF w = 0 THEN <<>> ELSE BigEndian(n \div 256, w - 1) \o <<n % 256>>

(* ---------------------------------------------------------------------- *)
(* Inputs                                                                  *)
(* ---------------------------------------------------------------------- *)
Sections == 0..MaxSection

\* headers offered to the CHT backend: the last two blocks of the first
\* 4096-block section, the last one on two competing forks
ChtHeaders == {Header(4094, 1), Header(4095, 1), Header(4095, 2)}

\* section heads offered to Reset: none, or a last block of the section
ChtHeads == {ZeroHash} \cup {HeaderHash(h) : h \in {x \in ChtHeaders : x.Number = 4095}}

\* headers offered to the Bloom Trie backend: of every section the first
\* block and the last block, the last one on two competing forks; of section
\* 0 also the last block of each run of 4096 blocks
BltHeaders ==
    {Header(sec * BloomTrieFrequency, 1) : sec \in Sections}
    \cup {Header((sec + 1) * BloomTrieFrequency - 1, f) : sec \in Sections, f \in {1, 2}}
    \cup {Header(k * ethBloomBitsSection - 1, 1) :
            k \in 1..(BloomTrieFrequency \div ethBloomBitsSection)}

\* the headers of a section, and how many block numbers of them precede one
SectionHeaders(sec) ==
    {h \in BltHeaders : h.Number \div BloomTrieFrequency = sec}
Rank(sec, header) ==
    Cardinality({h.Number : h \in {x \in SectionHeaders(sec) : x.Number < header.Number}})

BltHeads == {ZeroHash} \cup
    {HeaderHash(Header((sec + 1) * BloomTrieFrequency - 1, f)) : sec \in Sections, f \in {1, 2}}

\* total difficulty recorded for a header once it is in the chain store
TdOf(h) == 256 * h.Number + h.Fork

(* ---------------------------------------------------------------------- *)
(* Collaborators: key-value store, trie, rlp                               *)
(* ---------------------------------------------------------------------- *)
\* ethdb.Database.Get on a store held as a function from keys to values;
\* a missing key yields no data
DbGet(store, key) == IF key \in DOMAIN store THEN <<store[key]>> ELSE <<>>

\* ethdb.Database.Put
DbPut(store, key, value) ==
    [k \in DOMAIN store \cup {key} |-> IF k = key THEN value ELSE store[k]]

\* common.BytesToHash: no data gives the zero hash
BytesToHash(data) == IF data = <<>> THEN ZeroHash ELSE data[1]

\* a trie is the function from its keys to their values; its root hash is a
\* collision-free function of that key/value set
EmptyTrie == <<>>
TrieRoot(t) == <<"trie", t>>

\* trie.Update: an empty value deletes the key
TrieUpdate(t, key, value) ==
    IF value = <<>>
    THEN [k \in DOMAIN t \ {key} |-> t[k]]
    ELSE [k \in DOMAIN t \cup {key} |-> IF k = key THEN value ELSE t[k]]

\* trie.Delete
TrieDelete(t, key) == [k \in DOMAIN t \ {key} |-> t[k]]

\* trie.New(root, db): <<trie>> on success, <<>> (a nil trie and an error)
\* when the root node is not in the node store
TrieNew(root, nodes) ==
    IF root = ZeroHash \/ root = TrieRoot(EmptyTrie) THEN <<EmptyTrie>>
    ELSE IF root \in nodes THEN <<root[2]>>
    ELSE <<>>

\* minimal big-endian bytes of a non-negative integer (big.Int in rlp)
RECURSIVE BigBytes(_)
BigBytes(n) == IF n = 0 THEN <<>> ELSE BigBytes(n \div 256) \o <<n % 256>>

\* rlp.EncodeToBytes(ChtNode{hash, td}): the list of the two fields; td is
\* <<n>>, or <<>> for a nil *big.Int, which encodes as zero
RlpChtNode(hash, td) == <<"rlp", hash, IF td = <<>> THEN <<>> ELSE BigBytes(td[1])>>

(* ---------------------------------------------------------------------- *)
(* bitutil: compressed byte bitmaps.  A byte vector of length len is held  *)
(* as its non-zero bytes, nz : index (from 0) -> byte in 1..255.           *)
(* ---------------------------------------------------------------------- *)
Zeros(n) == [len |-> n, nz |-> <<>>]

\* the byte slice b (a sequence) as a vector
Sparse(b) ==
    [len |-> Len(b),
     nz |-> [i \in {j - 1 : j \in {x \in DOMAIN b : b[x] # 0}} |-> b[i + 1]]]

\* the vector as a byte slice
Dense(v) == [i \in 1..v.len |-> IF (i - 1) \in DOMAIN v.nz THEN v.nz[i - 1] ELSE 0]

\* append(a, b...)
Concat(a, b) ==
    [len |-> a.len + b.len,
     nz |-> [i \in DOMAIN a.nz \cup {j + a.len : j \in DOMAIN b.nz} |->
                IF i < a.len THEN a.nz[i] ELSE b.nz[i - a.len]]]

Pow2(k) == 2^k

Min(S) == CHOOSE x \in S : \A y \in S : x <= y

\* the elements of a set of numbers in increasing order
RECURSIVE Ascending(_)
Ascending(S) == IF S = {} THEN <<>> ELSE <<Min(S)>> \o Ascending(S \ {Min(S)})

RECURSIVE SumOf(_)
SumOf(S) == IF S = {} THEN 0 ELSE LET x == Min(S) IN x + SumOf(S \ {x})

\* the bitset of the non-zero bytes of v: bit 7-i%8 of byte i/8 is set
BitsetOf(v) ==
    [len |-> (v.len + 7) \div 8,
     nz |-> [g \in {i \div 8 : i \in DOMAIN v.nz} |->
                SumOf({Pow2(7 - (i % 8)) : i \in {x \in DOMAIN v.nz : x \div 8 = g}})]]

\* the positions of the bits set in bitset v
SetBits(v) ==
    {p \in {8 * g + k : g \in DOMAIN v.nz, k \in 0..7} :
        (v.nz[p \div 8] \div Pow2(7 - (p % 8))) % 2 = 1}

\* bitutil.bitsetEncodeBytes
RECURSIVE bitsetEncodeBytes(_)
bitsetEncodeBytes(v) ==
    IF v.len = 0 THEN <<>>
    ELSE IF v.len = 1 THEN (IF DOMAIN v.nz = {} THEN <<>> ELSE <<v.nz[0]>>)
    ELSE IF DOMAIN v.nz = {} THEN <<>>
    ELSE LET idx == Ascending(DOMAIN v.nz)
         IN bitsetEncodeBytes(BitsetOf(v)) \o [k \in 1..Len(idx) |-> v.nz[idx[k]]]

\* bitutil.CompressBytes: the encoding when it is shorter, else a copy
CompressBytes(v) ==
    LET out == bitsetEncodeBytes(v)
    IN IF Len(out) < v.len THEN out ELSE Dense(v)

DecodeError == [err |-> TRUE, out |-> Zeros(0), size |-> 0]

\* bitutil.bitsetDecodePartialBytes: the vector and the bytes consumed
RECURSIVE bitsetDecodePartialBytes(_, _)
bitsetDecodePartialBytes(data, target) ==
    IF target = 0 THEN [err |-> FALSE, out |-> Zeros(0), size |-> 0]
    ELSE IF Len(data) = 0 THEN [err |-> FALSE, out |-> Zeros(target), size |-> 0]
    ELSE IF target = 1
    THEN IF data[1] # 0
         THEN [err |-> FALSE, out |-> Sparse(<<data[1]>>), size |-> 1]
         ELSE [err |-> FALSE, out |-> Zeros(1), size |-> 0]
    ELSE LET r == bitsetDecodePartialBytes(data, (target + 7) \div 8)
             pos == Ascending(SetBits(r.out))
         IN IF r.err THEN DecodeError
            ELSE IF \E k \in 1..Len(pos) :
                       \/ r.size + k > Len(data)
                       \/ pos[k] >= target
                       \/ data[r.size + k] = 0
            THEN DecodeError
            ELSE [err |-> FALSE,
                  out |-> [len |-> target,
                           nz |-> [p \in {pos[k] : k \in 1..Len(pos)} |->
                                     data[r.size + (CHOOSE k \in 1..Len(pos) : pos[k] = p)]]],
                  size |-> r.size + Len(pos)]

\* bitutil.DecompressBytes(data, target)
DecompressBytes(data, target) ==
    IF Len(data) > target THEN DecodeError
    ELSE IF Len(data) = target
    THEN [err |-> FALSE, out |-> Sparse(data), size |-> Len(data)]
    ELSE LET r == bitsetDecodePartialBytes(data, target)
         IN IF r.err \/ r.size # Len(data) THEN DecodeError ELSE r

(* ---------------------------------------------------------------------- *)
(* Key schema and root records (postprocess.go:77-112, 186-204)            *)
(* ---------------------------------------------------------------------- *)
chtPrefix == "chtRoot-"

\* variant: the Bloom Trie records share the prefix of the CHT records
bloomTriePrefixShared == "chtRoot-"

bloomTriePrefix == "bltRoot-"

ChtRootKey(sectionIdx, sectionHead) ==
    <<chtPrefix>> \o BigEndian(sectionIdx, 8) \o <<sectionHead>>

BloomTrieRootKey(sectionIdx, sectionHead) ==
    <<bloomTriePrefix>> \o BigEndian(sectionIdx, 8) \o <<sectionHead>>

GetChtRoot(store, sectionIdx, sectionHead) ==
    BytesToHash(DbGet(store, ChtRootKey(sectionIdx, sectionHead)))

\* variant: the section index is used as it is
GetChtV2RootUnconverted(store, sectionIdx, sectionHead) ==
    GetChtRoot(store, sectionIdx, sectionHead)

\* sectionIdx counts sections of ChtFrequency blocks; the record is read
\* under the index of the last section of ChtV1Frequency blocks it spans
GetChtV2Root(store, sectionIdx, sectionHead) ==
    GetChtRoot(store, (sectionIdx + 1) * (ChtFrequency \div ChtV1Frequency) - 1, sectionHead)

\* variant: the record is stored under the converted section index
StoreChtRootConverted(store, sectionIdx, sectionHead, root) ==
    DbPut(store,
          ChtRootKey((sectionIdx + 1) * (ChtFrequency \div ChtV1Frequency) - 1, sectionHead),
          root)

StoreChtRoot(store, sectionIdx, sectionHead, root) ==
    DbPut(store, ChtRootKey(sectionIdx, sectionHead), root)

GetBloomTrieRoot(store, sectionIdx, sectionHead) ==
    BytesToHash(DbGet(store, BloomTrieRootKey(sectionIdx, sectionHead)))

StoreBloomTrieRoot(store, sectionIdx, sectionHead, root) ==
    DbPut(store, BloomTrieRootKey(sectionIdx, sectionHead), root)

(* ---------------------------------------------------------------------- *)
(* State                                                                   *)
(* ---------------------------------------------------------------------- *)
VARIABLES
    clientMode,     \* argument of NewChtIndexer / NewBloomTrieIndexer
    db,             \* the key-value store: root records
    chtNodes,       \* trie node table "cht-": roots whose nodes are stored
    bltNodes,       \* trie node table "blt-": roots whose nodes are stored
    tds,            \* chain store: headers whose total difficulty is stored
    bloomBits,      \* chain store: <<bit, section, head>> -> compressed bits
    chtTrie,        \* ChtIndexerBackend.trie, <<>> when nil
    chtSection,     \* ChtIndexerBackend.section
    lastHash,       \* ChtIndexerBackend.lastHash
    bltTrie,        \* BloomTrieIndexerBackend.trie, <<>> when nil
    bltSection,     \* BloomTrieIndexerBackend.section
    sectionHeads,   \* BloomTrieIndexerBackend.sectionHeads, slots 0..ratio-1
    ret,            \* the last call of the backend this process drives and
                    \* its outcome; err = "panic" once the process has panicked;
                    \* again (history): the call was a Commit of a cycle whose
                    \* root record an earlier Commit of the same cycle wrote
    chtBase,        \* history: the trie the last CHT Reset opened
    chtSeen,        \* history: headers CHT Process inserted since that Reset
    chtProv,        \* history: per CHT root record, the cycle that wrote it
    bltCycle,       \* history: the running Bloom Trie cycle, and the keys its
                    \* last Commit removed from the trie
    bltFailed       \* history: the failed Bloom Trie cycle being retried

storeVars == <<db, chtNodes, bltNodes>>
chainVars == <<tds, bloomBits>>
chtVars == <<chtTrie, chtSection, lastHash, chtBase, chtSeen, chtProv>>
bltVars == <<bltTrie, bltSection, sectionHeads, bltCycle, bltFailed>>
vars == <<clientMode, storeVars, chainVars, chtVars, bltVars, ret>>

Call(b, o, e) == [backend |-> b, op |-> o, err |-> e, root |-> ZeroHash, again |-> FALSE]
Committed(b, r) == [backend |-> b, op |-> "Commit", err |-> "nil", root |-> r, again |-> FALSE]

\* NewChtIndexer / NewBloomTrieIndexer has returned
Constructed(b) == Call(b, "New", "nil")

crashed == ret.err = "panic"

(* ---------------------------------------------------------------------- *)
(* ChtIndexerBackend (postprocess.go:114-178)                              *)
(* ---------------------------------------------------------------------- *)
\* NewChtIndexer: section size chosen by the mode
ChtSectionSize == IF clientMode THEN ChtFrequency ELSE ChtV1Frequency

\* core.GetTd(db, hash, num): <<td>>, or <<>> (nil) when none is stored
GetTd(header) == IF header \in tds THEN <<TdOf(header)>> ELSE <<>>

\* variant: Reset always starts from the empty trie
ChtResetRootZero(section, lastSectionHead) == ZeroHash

\* the root Reset opens the trie at
ChtResetRoot(section, lastSectionHead) ==
    IF section > 0 THEN GetChtRoot(db, section - 1, lastSectionHead) ELSE ZeroHash

\* the trie after Reset: trie.New at the previous section's root
ChtResetTrie(section, lastSectionHead) ==
    TrieNew(ChtResetRoot(section, lastSectionHead), chtNodes)

ChtReset(section, lastSectionHead) ==
    /\ ~crashed
    /\ LET t == ChtResetTrie(section, lastSectionHead)
       IN /\ chtTrie' = t
          /\ chtSection' = section
          /\ ret' = Call("cht", "Reset", IF t = <<>> THEN "error" ELSE "nil")
          /\ chtBase' = t
          /\ chtSeen' = <<>>
    /\ UNCHANGED <<clientMode, storeVars, chainVars, lastHash, chtProv, bltVars>>

\* variant: the key loses the lowest bit of the block number
ChtEntryKeyHalved(header) == BigEndian(header.Number \div 2, 8)

\* variant: the node is encoded without the total difficulty
ChtEntryValueNoTd(header, td) == RlpChtNode(HeaderHash(header), <<>>)

\* the key and the value Process writes for a header
ChtEntryKey(header) == BigEndian(header.Number, 8)
ChtEntryValue(header, td) == RlpChtNode(HeaderHash(header), td)

\* variant: a missing total difficulty goes unnoticed
ChtProcessPanicsOnNilTrie(header) == chtTrie = <<>>

\* Process panics: no total difficulty, or a nil trie dereferenced
ChtProcessPanics(header) == GetTd(header) = <<>> \/ chtTrie = <<>>

\* c.lastHash = hash
ChtLastHash(header) == HeaderHash(header)

ChtProcess(header) ==
    /\ ~crashed
    /\ lastHash' = ChtLastHash(header)
    /\ IF ChtProcessPanics(header)
       THEN /\ ret' = Call("cht", "Process", "panic")
            /\ UNCHANGED <<chtTrie, chtSeen>>
       ELSE /\ chtTrie' = <<TrieUpdate(chtTrie[1], ChtEntryKey(header),
                                       ChtEntryValue(header, GetTd(header)))>>
            /\ ret' = Call("cht", "Process", "nil")
            /\ chtSeen' = Append(chtSeen, header)
    /\ UNCHANGED <<clientMode, storeVars, chainVars, chtSection, chtBase, chtProv, bltVars>>

\* variant: Commit leaves the backend with an empty trie
ChtTrieDiscarded == <<EmptyTrie>>

\* the trie the backend holds once Commit has returned
ChtTrieAfterCommit == chtTrie

\* variant: Commit stores the root and then reports an error
ChtCommitReportsError(root) == Call("cht", "Commit", "error")

\* what Commit returns once trie.CommitTo has succeeded: return nil
ChtCommitResult(root) == Committed("cht", root)

\* history: the record under key was written by a Commit of this same cycle
\* (the same trie opened by Reset, the same headers processed)
ChtSameCycle(key) ==
    /\ key \in DOMAIN chtProv
    /\ chtProv[key].base = chtBase
    /\ chtProv[key].seen = chtSeen

\* the outcomes of a store write: it takes effect, or (on a store whose
\* writes may fail) it does not
WriteOutcomes(faulty) == IF faulty THEN BOOLEAN ELSE {TRUE}

\* commitErr: trie.CommitTo fails; writeOk: batch.Write takes effect;
\* putOk: db.Put of the root record takes effect
ChtCommit(faulty) ==
    /\ ~crashed
    /\ IF chtTrie = <<>>
       THEN /\ ret' = Call("cht", "Commit", "panic")
            /\ UNCHANGED <<db, chtNodes, chtTrie, chtProv>>
       ELSE \E commitErr \in BOOLEAN, writeOk, putOk \in WriteOutcomes(faulty) :
            IF commitErr
            THEN /\ ret' = Call("cht", "Commit", "error")
                 /\ UNCHANGED <<db, chtNodes, chtTrie, chtProv>>
            ELSE LET root == TrieRoot(chtTrie[1])
                key == ChtRootKey(chtSection, lastHash)
            IN /\ chtNodes' = IF writeOk THEN chtNodes \cup {root} ELSE chtNodes
               /\ db' = IF putOk THEN StoreChtRoot(db, chtSection, lastHash, root)
                        ELSE db
               /\ Cardinality(DOMAIN db') <= MaxRecords
               /\ Cardinality(chtNodes') <= MaxRecords
               /\ ret' = [ChtCommitResult(root) EXCEPT !.again = putOk /\ ChtSameCycle(key)]
               /\ chtTrie' = ChtTrieAfterCommit
               /\ chtProv' = IF putOk
                             THEN DbPut(chtProv, key, [base |-> chtBase, seen |-> chtSeen])
                             ELSE chtProv
    /\ UNCHANGED <<clientMode, bltNodes, chainVars, chtSection, lastHash,
                   chtBase, chtSeen, bltVars>>

\* the chain store records the total difficulty of a header
WriteTd(header) ==
    /\ header \notin tds
    /\ tds' = tds \cup {header}
    /\ UNCHANGED <<clientMode, storeVars, bloomBits, chtVars, bltVars, ret>>

(* ---------------------------------------------------------------------- *)
(* BloomTrieIndexerBackend (postprocess.go:206-295)                        *)
(* ---------------------------------------------------------------------- *)
\* NewBloomTrieIndexer
ParentSectionSize == IF clientMode THEN BloomTrieFrequency ELSE ethBloomBitsSection
BloomTrieRatio == BloomTrieFrequency \div ParentSectionSize
NoSectionHeads == [j \in 0..(BloomTrieRatio - 1) |-> ZeroHash]

\* core.GetBloomBits(db, bit, section, head): <<data>>, or <<>> on error
GetBloomBits(bits, bit, section, head) == DbGet(bits, <<bit, section, head>>)

BltResetRoot(section, lastSectionHead) ==
    IF section > 0 THEN GetBloomTrieRoot(db, section - 1, lastSectionHead) ELSE ZeroHash

\* variant: an open trie in flight survives Reset
BltResetKeepsTrie(section, lastSectionHead) ==
    IF bltTrie # <<>> THEN bltTrie
    ELSE TrieNew(BltResetRoot(section, lastSectionHead), bltNodes)

\* the trie after Reset: trie.New at the previous section's root
BltResetTrie(section, lastSectionHead) ==
    TrieNew(BltResetRoot(section, lastSectionHead), bltNodes)

\* the slots Reset leaves in b.sectionHeads
BltResetHeads(heads) == heads

\* num := header.Number.Uint64() - b.section*BloomTrieFrequency; a negative
\* value stands for the wrapped difference 2^64 + num
BltOffset(section, header) == header.Number - section * BloomTrieFrequency

\* (num+1)%b.parentSectionSize == 0; 2^64 is a multiple of the section size
BltAtBoundary(section, header) ==
    (BltOffset(section, header) + 1) % ParentSectionSize = 0

\* num/b.parentSectionSize is a slot of b.sectionHeads; a wrapped num is not
BltSlotInRange(section, header) ==
    /\ BltOffset(section, header) >= 0
    /\ BltOffset(section, header) \div ParentSectionSize < BloomTrieRatio

\* variant: every header is recorded in the slot of its parent section
BltSlotsEveryHeader(heads, section, header) ==
    IF BltSlotInRange(section, header)
    THEN [heads EXCEPT ![BltOffset(section, header) \div ParentSectionSize] =
              HeaderHash(header)]
    ELSE heads

\* b.sectionHeads after Process
BltSlots(heads, section, header) ==
    IF BltAtBoundary(section, header) /\ BltSlotInRange(section, header)
    THEN [heads EXCEPT ![BltOffset(section, header) \div ParentSectionSize] =
              HeaderHash(header)]
    ELSE heads

\* the trie key of a bit position: beU16(bit) ++ beU64(section)
BloomBitKey(i, section) == BigEndian(i, 2) \o BigEndian(section, 8)

\* variant: a bit-plane that cannot be fetched or decompressed counts as empty
BltParentBitsLenient(bits, section, heads, i, j) ==
    LET data == GetBloomBits(bits, i, section * BloomTrieRatio + j, heads[j])
        d == IF data = <<>> THEN DecodeError
             ELSE DecompressBytes(data[1], ParentSectionSize \div 8)
    IN IF d.err THEN [err |-> FALSE, out |-> Zeros(ParentSectionSize \div 8), size |-> 0]
       ELSE d

\* lines 262-269: the bit-plane of position i over parent section j, fetched
\* and decompressed; err when either step fails
BltParentBits(bits, section, heads, i, j) ==
    LET data == GetBloomBits(bits, i, section * BloomTrieRatio + j, heads[j])
    IN IF data = <<>> THEN DecodeError
       ELSE DecompressBytes(data[1], ParentSectionSize \div 8)

\* variant: the chunk is put in front
BltPrepend(decomp, decompSection) == Concat(decompSection, decomp)

\* line 270: decomp = append(decomp, decompSection...)
BltAppend(decomp, decompSection) == Concat(decomp, decompSection)

\* lines 260-271: the decompressed bit-planes of the parent sections j..ratio-1
\* appended to acc; err when one cannot be fetched or decompressed
RECURSIVE BltGather(_, _, _, _, _, _)
BltGather(bits, section, heads, i, j, acc) ==
    IF j >= BloomTrieRatio THEN [err |-> FALSE, decomp |-> acc]
    ELSE LET d == BltParentBits(bits, section, heads, i, j)
         IN IF d.err THEN [err |-> TRUE, decomp |-> acc]
            ELSE BltGather(bits, section, heads, i, j + 1, BltAppend(acc, d.out))

\* variant: an empty bit-plane leaves the entry as it was
BltPutNoDelete(t, key, comp) ==
    IF Len(comp) > 0 THEN TrieUpdate(t, key, comp) ELSE t

\* lines 272-280: the trie with the bit-plane of position i written
BltPutBits(t, key, comp) ==
    IF Len(comp) > 0 THEN TrieUpdate(t, key, comp) ELSE TrieDelete(t, key)

\* lines 256-281: the loop over the bit positions i..BloomBitLength-1;
\* t is <<trie>> or <<>> (nil)
RECURSIVE BltUpdateBits(_, _, _, _, _)
BltUpdateBits(bits, section, heads, t, i) ==
    IF i >= BloomBitLength THEN [err |-> "nil", trie |-> t]
    ELSE LET g == BltGather(bits, section, heads, i, 0, Zeros(0))
         IN IF g.err THEN [err |-> "error", trie |-> t]
            ELSE IF t = <<>> THEN [err |-> "panic", trie |-> t]
            ELSE BltUpdateBits(bits, section, heads,
                     <<BltPutBits(t[1], BloomBitKey(i, section), CompressBytes(g.decomp))>>,
                     i + 1)

\* what the backend holds once Commit has returned
BltTrieAfterCommit(t) == t

\* variant: the record is keyed by the head of the first parent section
BltSectionHeadFirst(heads) == heads[0]

\* line 289: sectionHead := b.sectionHeads[b.bloomTrieRatio-1]
BltSectionHead(heads) == heads[BloomTrieRatio - 1]

BltReset(section, lastSectionHead) ==
    /\ ~crashed
    /\ LET t == BltResetTrie(section, lastSectionHead)
           heads == BltResetHeads(sectionHeads)
       IN /\ bltTrie' = t
          /\ bltSection' = section
          /\ sectionHeads' = heads
          /\ ret' = Call("blt", "Reset", IF t = <<>> THEN "error" ELSE "nil")
          /\ bltCycle' = [head |-> lastSectionHead, base |-> t, seen |-> <<>>,
                           dropped |-> {}]
          /\ bltFailed' = IF /\ bltFailed # <<>>
                             /\ bltFailed[1].section = section
                             /\ bltFailed[1].head = lastSectionHead
                             /\ t # <<>>
                          THEN <<[bltFailed[1] EXCEPT !.retry = TRUE]>>
                          ELSE <<>>
    /\ UNCHANGED <<clientMode, storeVars, chainVars, chtVars>>

BltProcess(header) ==
    /\ ~crashed
    /\ IF BltAtBoundary(bltSection, header) /\ ~BltSlotInRange(bltSection, header)
       THEN \* index out of range
            /\ ret' = Call("blt", "Process", "panic")
            /\ UNCHANGED <<sectionHeads, bltCycle, bltFailed>>
       ELSE /\ sectionHeads' = BltSlots(sectionHeads, bltSection, header)
            /\ ret' = Call("blt", "Process", "nil")
            /\ LET n == Len(bltCycle.seen)
                   seen == IF n > 0 /\ bltCycle.seen[n].Number = header.Number
                           THEN [bltCycle.seen EXCEPT ![n] = header]
                           ELSE Append(bltCycle.seen, header)
               IN /\ bltCycle' = [bltCycle EXCEPT !.seen = seen, !.dropped = {}]
                  /\ bltFailed' = IF /\ bltFailed # <<>>
                                     /\ bltFailed[1].retry
                                     /\ Len(seen) <= Len(bltFailed[1].seen)
                                     /\ seen = SubSeq(bltFailed[1].seen, 1, Len(seen))
                                  THEN bltFailed
                                  ELSE <<>>
    /\ UNCHANGED <<clientMode, storeVars, chainVars, chtVars, bltTrie, bltSection>>

\* history: the record of the running cycle kept when its Commit fails,
\* with the trie t the failed Commit leaves in flight
BltFailure(t) ==
    <<[section |-> bltSection, head |-> bltCycle.head, base |-> bltCycle.base,
       trie |-> t, heads |-> sectionHeads, seen |-> bltCycle.seen, retry |-> FALSE]>>

BltCommit(faulty) ==
    /\ ~crashed
    /\ \E r \in {BltUpdateBits(bloomBits, bltSection, sectionHeads, bltTrie, 0)} :
          IF r.err = "panic" \/ (r.err = "nil" /\ r.trie = <<>>)
          THEN \* nil trie dereferenced by Update, Delete or CommitTo
               /\ ret' = Call("blt", "Commit", "panic")
               /\ UNCHANGED <<db, bltNodes, bltTrie, bltCycle, bltFailed>>
          ELSE \E commitErr \in BOOLEAN, writeOk, putOk \in WriteOutcomes(faulty) :
          IF r.err = "error" \/ commitErr
          THEN /\ ret' = Call("blt", "Commit", "error")
               /\ bltTrie' = r.trie
               /\ bltFailed' = BltFailure(r.trie)
               /\ UNCHANGED <<db, bltNodes, bltCycle>>
          ELSE LET root == TrieRoot(r.trie[1])
                   sectionHead == BltSectionHead(sectionHeads)
               IN /\ bltNodes' = IF writeOk THEN bltNodes \cup {root} ELSE bltNodes
                  /\ db' = IF putOk
                           THEN StoreBloomTrieRoot(db, bltSection, sectionHead, root)
                           ELSE db
                  /\ Cardinality(DOMAIN db') <= MaxRecords
                  /\ Cardinality(bltNodes') <= MaxRecords
                  /\ ret' = Committed("blt", root)
                  /\ bltTrie' = BltTrieAfterCommit(r.trie)
                  /\ bltCycle' = [bltCycle EXCEPT
                                     !.dropped = DOMAIN bltTrie[1] \ DOMAIN r.trie[1]]
                  /\ bltFailed' = IF /\ bltFailed # <<>>
                                     /\ bltFailed[1].retry
                                     /\ bltFailed[1].seen = bltCycle.seen
                                  THEN bltFailed
                                  ELSE <<>>
    /\ UNCHANGED <<clientMode, chtNodes, chainVars, chtVars, bltSection, sectionHeads>>

(* ---------------------------------------------------------------------- *)
(* The chain store's bloom bits                                            *)
(* ---------------------------------------------------------------------- *)
\* the bit-plane of bit position bit over the parent section that ends with
\* header: distinct for distinct sections and forks; position 0 is set only
\* on fork 1 of the last block of a 32768-block section
BitPlane(bit, header) ==
    LET j == (header.Number \div ethBloomBitsSection) % 8
    IN IF bit = 0
       THEN IF header.Fork = 1 /\ j = 7
            THEN [len |-> ParentSectionSize \div 8, nz |-> (5 :> 255)]
            ELSE Zeros(ParentSectionSize \div 8)
       ELSE [len |-> ParentSectionSize \div 8,
             nz |-> (j :> (8 * bit + j + 1 + 64 * (header.Fork - 1)))]

\* the bloom bits of every parent section that ends with a header of BltHeaders
FullBloomBits ==
    LET ends == {h \in BltHeaders : (h.Number + 1) % ParentSectionSize = 0}
        keys == {<<bit, h.Number \div ParentSectionSize, HeaderHash(h)>> :
                    bit \in 0..(BloomBitLength - 1), h \in ends}
    IN [k \in keys |-> CompressBytes(BitPlane(k[1], Header(k[3][2], k[3][3])))]

\* the entry that may be missing or damaged: the last bit position of the
\* last parent section of section 0
FaultKey ==
    <<BloomBitLength - 1, BloomTrieRatio - 1, HeaderHash(Header(BloomTrieFrequency - 1, 1))>>

\* stored bytes that do not decompress
DamagedBits == <<0>>

\* core.WriteBloomBits by the bloom-bits indexer: the entry becomes available
WriteBloomBits ==
    /\ DbGet(bloomBits, FaultKey) \in {<<>>, <<DamagedBits>>}
    /\ bloomBits' = DbPut(bloomBits, FaultKey,
                          CompressBytes(BitPlane(FaultKey[1], Header(FaultKey[3][2], FaultKey[3][3]))))
    /\ UNCHANGED <<clientMode, storeVars, tds, chtVars, bltVars, ret>>

(* ---------------------------------------------------------------------- *)
(* Root lookups by the rest of the program (postprocess.go:91-104,         *)
(* 190-197): pure reads of the store                                       *)
(* ---------------------------------------------------------------------- *)
\* variant: a lookup that finds no record reports an error
LookupFailsOnMissing(op, root) ==
    IF root = ZeroHash THEN Call(ret.backend, op, "error")
    ELSE [Call(ret.backend, op, "nil") EXCEPT !.root = root]

\* data, _ := db.Get(...); return common.BytesToHash(data): the error of
\* Get is dropped, the hash of whatever was read is returned
LookupResult(op, root) == [Call(ret.backend, op, "nil") EXCEPT !.root = root]

LookupChtRoot(sectionIdx, sectionHead) ==
    /\ ~crashed
    /\ ret' = LookupResult("GetChtRoot", GetChtRoot(db, sectionIdx, sectionHead))
    /\ UNCHANGED <<clientMode, storeVars, chainVars, chtVars, bltVars>>

LookupChtV2Root(sectionIdx, sectionHead) ==
    /\ ~crashed
    /\ ret' = LookupResult("GetChtV2Root", GetChtV2Root(db, sectionIdx, sectionHead))
    /\ UNCHANGED <<clientMode, storeVars, chainVars, chtVars, bltVars>>

LookupBloomTrieRoot(sectionIdx, sectionHead) ==
    /\ ~crashed
    /\ ret' = LookupResult("GetBloomTrieRoot", GetBloomTrieRoot(db, sectionIdx, sectionHead))
    /\ UNCHANGED <<clientMode, storeVars, chainVars, chtVars, bltVars>>

(* ---------------------------------------------------------------------- *)
(* Construction, restart, specifications                                   *)
(* ---------------------------------------------------------------------- *)
NoCycle == [head |-> ZeroHash, base |-> <<>>, seen |-> <<>>, dropped |-> {}]

Init ==
    /\ clientMode \in BOOLEAN
    /\ db = <<>>
    /\ chtNodes = {}
    /\ bltNodes = {}
    /\ tds \in {ChtHeaders, ChtHeaders \ {Header(4094, 1)}}
    /\ bloomBits \in {FullBloomBits,
                      [k \in DOMAIN FullBloomBits \ {FaultKey} |-> FullBloomBits[k]],
                      [FullBloomBits EXCEPT ![FaultKey] = DamagedBits]}
    /\ chtTrie = <<>>
    /\ chtSection = 0
    /\ lastHash = ZeroHash
    /\ bltTrie = <<>>
    /\ bltSection = 0
    /\ sectionHeads = NoSectionHeads
    /\ ret \in {Constructed("cht"), Constructed("blt")}
    /\ chtBase = <<>>
    /\ chtSeen = <<>>
    /\ chtProv = <<>>
    /\ bltCycle = NoCycle
    /\ bltFailed = <<>>

\* the process is started again on the same store: NewChtIndexer and
\* NewBloomTrieIndexer build fresh backends
Restart ==
    /\ crashed
    /\ chtTrie' = <<>>
    /\ chtSection' = 0
    /\ lastHash' = ZeroHash
    /\ bltTrie' = <<>>
    /\ bltSection' = 0
    /\ sectionHeads' = NoSectionHeads
    /\ ret' = Constructed(ret.backend)
    /\ chtBase' = <<>>
    /\ chtSeen' = <<>>
    /\ bltCycle' = NoCycle
    /\ bltFailed' = <<>>
    /\ UNCHANGED <<clientMode, storeVars, chainVars, chtProv>>

\* the scheduler hands the headers of the section over in block-number
\* order; the head of the section may be replaced by a competing one
BltInOrder(header) ==
    /\ header \in SectionHeaders(bltSection)
    /\ \/ Rank(bltSection, header) = Len(bltCycle.seen)
       \/ /\ bltCycle.seen # <<>>
          /\ bltCycle.seen[Len(bltCycle.seen)].Number = header.Number

\* section 0 is reset with the zero hash as the previous head
ResetArgs(heads) == {<<sec, h>> \in Sections \X heads : sec = 0 => h = ZeroHash}

NextCht ==
    \/ \E a \in ResetArgs(ChtHeads) : ChtReset(a[1], a[2])
    \/ \E h \in ChtHeaders : Len(chtSeen) < MaxHdrs /\ ChtProcess(h)
    \/ ChtCommit(FALSE)
    \/ \E h \in ChtHeaders : WriteTd(h)
    \/ Restart

InitCht == Init /\ ret.backend = "cht" /\ ~clientMode /\ bloomBits = FullBloomBits

SpecCht == InitCht /\ [][NextCht]_vars

NextBlt ==
    \/ \E a \in ResetArgs(BltHeads) : BltReset(a[1], a[2])
    \/ \E h \in BltHeaders : BltInOrder(h) /\ BltProcess(h)
    \/ BltCommit(FALSE)
    \/ WriteBloomBits
    \/ Restart

InitBlt == Init /\ ret.backend = "blt" /\ tds = ChtHeaders

SpecBlt == InitBlt /\ [][NextBlt]_vars

\* either backend indexing section 0 on a store whose writes may fail
Next ==
    \/ ret.backend = "cht" /\ ChtReset(0, ZeroHash)
    \/ \E h \in ChtHeaders :
          ret.backend = "cht" /\ Len(chtSeen) < MaxHdrs /\ ChtProcess(h)
    \/ ret.backend = "cht" /\ ChtCommit(TRUE)
    \/ \E h \in ChtHeaders : ret.backend = "cht" /\ WriteTd(h)
    \/ ret.backend = "blt" /\ BltReset(0, ZeroHash)
    \/ \E h \in BltHeaders : ret.backend = "blt" /\ BltInOrder(h) /\ BltProcess(h)
    \/ ret.backend = "blt" /\ BltCommit(TRUE)
    \/ ret.backend = "blt" /\ WriteBloomBits
    \/ Restart

Spec == (InitCht \/ InitBlt) /\ [][Next]_vars

\* either backend over sections 0..MaxSection on a reliable store
NextBoth ==
    \/ \E a \in ResetArgs(ChtHeads) : ret.backend = "cht" /\ ChtReset(a[1], a[2])
    \/ \E h \in ChtHeaders :
          ret.backend = "cht" /\ Len(chtSeen) < MaxHdrs /\ ChtProcess(h)
    \/ ret.backend = "cht" /\ ChtCommit(FALSE)
    \/ \E h \in ChtHeaders : ret.backend = "cht" /\ WriteTd(h)
    \/ \E a \in ResetArgs(BltHeads) : ret.backend = "blt" /\ BltReset(a[1], a[2])
    \/ \E h \in BltHeaders : ret.backend = "blt" /\ BltInOrder(h) /\ BltProcess(h)
    \/ ret.backend = "blt" /\ BltCommit(FALSE)
    \/ ret.backend = "blt" /\ WriteBloomBits
    \/ Restart

SpecBoth == (InitCht \/ InitBlt) /\ [][NextBoth]_vars

\* The CHT backend is given the last block of each run of 32768 blocks: the
\* head of section k of a client, of section 8k+7 of a server.
V2Sections == {0, 1}
RootsChtHeaders == {Header((k + 1) * ChtFrequency - 1, 1) : k \in V2Sections}
RootsChtHeads == {HeaderHash(h) : h \in RootsChtHeaders}
LookupSections == V2Sections \cup {8 * k + 7 : k \in V2Sections}
SharedChtHeaders == {Header(ChtFrequency - 1, 1)}
SharedBltHeads == {HeaderHash(Header(BloomTrieFrequency - 1, f)) : f \in {1, 2}}

InitShared ==
    /\ clientMode \in BOOLEAN
    /\ db = <<>>
    /\ chtNodes = {}
    /\ bltNodes = {}
    /\ tds = RootsChtHeaders
    /\ bloomBits = FullBloomBits
    /\ chtTrie = <<>>
    /\ chtSection = 0
    /\ lastHash = ZeroHash
    /\ bltTrie = <<>>
    /\ bltSection = 0
    /\ sectionHeads = NoSectionHeads
    /\ ret \in {Constructed("cht"), Constructed("blt")}
    /\ chtBase = <<>>
    /\ chtSeen = <<>>
    /\ chtProv = <<>>
    /\ bltCycle = NoCycle
    /\ bltFailed = <<>>

\* the section of the CHT backend a header belongs to
SharedChtSection(header) == header.Number \div ChtSectionSize

\* of the Bloom Trie section the last block of each parent section, in order
SharedBltNext(header) ==
    header = Header((Len(bltCycle.seen) + 1) * ParentSectionSize - 1, 1)

\* both backends on one reliable store, their calls interleaved
NextShared ==
    \/ \E h \in SharedChtHeaders : ChtReset(SharedChtSection(h), ZeroHash)
    \/ \E h \in SharedChtHeaders : Len(chtSeen) < 1 /\ ChtProcess(h)
    \/ ChtCommit(FALSE)
    \/ BltReset(0, ZeroHash)
    \/ \E h \in SectionHeaders(0) : SharedBltNext(h) /\ BltProcess(h)
    \/ BltCommit(FALSE)
    \/ Restart

InitInterleaved == InitShared /\ ret.backend = "cht"

SpecShared == InitInterleaved /\ [][NextShared]_vars

\* either backend on a reliable store, and the lookups of its root records
NextRoots ==
    \/ \E h \in RootsChtHeaders :
          ret.backend = "cht" /\ ChtReset(SharedChtSection(h), ZeroHash)
    \/ \E h \in RootsChtHeaders :
          /\ ret.backend = "cht"
          /\ SharedChtSection(h) = chtSection
          /\ Len(chtSeen) < 1
          /\ ChtProcess(h)
    \/ ret.backend = "cht" /\ ChtCommit(FALSE)
    \/ ret.backend = "blt" /\ BltReset(0, ZeroHash)
    \/ \E h \in BltHeaders : ret.backend = "blt" /\ BltInOrder(h) /\ BltProcess(h)
    \/ ret.backend = "blt" /\ BltCommit(FALSE)
    \/ \E sec \in LookupSections, h \in RootsChtHeads :
          ret.backend = "cht" /\ LookupChtRoot(sec, h)
    \/ \E sec \in V2Sections, h \in RootsChtHeads :
          ret.backend = "cht" /\ LookupChtV2Root(sec, h)
    \/ \E h \in SharedBltHeads : ret.backend = "blt" /\ LookupBloomTrieRoot(0, h)
    \/ Restart

SpecRoots == InitShared /\ [][NextRoots]_vars

(* ---------------------------------------------------------------------- *)
(* Properties                                                              *)
(* ---------------------------------------------------------------------- *)
Range(seq) == {seq[i] : i \in DOMAIN seq}

ChtCommitted == ret.backend = "cht" /\ ret.op = "Commit" /\ ret.err = "nil"
BltCommitted == ret.backend = "blt" /\ ret.op = "Commit" /\ ret.err = "nil"

\* C1: for both backends the root records of the store change only in a
\* Commit step that returns without error, and then only records of the
\* committing backend's kind; Reset, Process and a Commit that returns an
\* error leave every root record as it was.
C1_RootRecordsChangeOnlyInCommit ==
    [][db' # db =>
          /\ ret'.op = "Commit"
          /\ ret'.err = "nil"
          /\ \/ ret'.backend = "cht" /\ ChtCommit(TRUE)
             \/ ret'.backend = "blt" /\ BltCommit(TRUE)
          /\ \A k \in DOMAIN db' :
                (k \notin DOMAIN db \/ db'[k] # db[k]) =>
                    k[1] = (IF ret'.backend = "cht" THEN chtPrefix ELSE bloomTriePrefix)
          /\ DOMAIN db \subseteq DOMAIN db']_vars

\* a Commit has returned an error on a store that holds root records
C1_FailedCommitOverRecords ==
    ret.op = "Commit" /\ ret.err = "error" /\ DOMAIN db # {}

\* C2: a CHT Commit of a cycle (the trie Reset opened, the headers processed
\* since) whose root record an earlier Commit of the same cycle wrote yields
\* the root already recorded under (section, lastHash) and leaves the root
\* records as they are.
C2_ChtCommitIdempotent ==
    [][(/\ ret'.backend = "cht" /\ ret'.op = "Commit" /\ ret'.err = "nil"
        /\ ChtSameCycle(ChtRootKey(chtSection, lastHash))
        /\ ChtCommit(FALSE)) =>
          /\ ret'.root = GetChtRoot(db, chtSection, lastHash)
          /\ GetChtRoot(db', chtSection, lastHash) = ret'.root
          /\ db' = db]_vars

\* a cycle with a header processed has been committed a second time
C2_CommittedTwice == ChtCommitted /\ ret.again /\ chtSeen # <<>>

\* C5: CHT Process of a header whose total difficulty the chain store lacks
\* panics; the trie in flight, the trie nodes and the root records stay as
\* they were.
C5_MissingTdAborts ==
    [][\A h \in ChtHeaders :
          (h \notin tds /\ ChtProcess(h)) =>
              /\ ret'.err = "panic"
              /\ chtTrie' = chtTrie
              /\ db' = db
              /\ chtNodes' = chtNodes]_vars

\* Process has panicked on an open trie over a header without total difficulty
C5_PanickedOnMissingTd ==
    /\ ret = Call("cht", "Process", "panic")
    /\ chtTrie # <<>>
    /\ \E h \in ChtHeaders \ tds : lastHash = HeaderHash(h)

\* the block numbers of the headers are pairwise distinct
DistinctNumbers(seq) ==
    \A i, j \in DOMAIN seq : seq[i].Number = seq[j].Number => i = j

\* the trie base with one entry per header of the set hs: 8-byte big-endian
\* block number -> rlp(hash, total difficulty)
ChtEntriesOver(base, hs) ==
    [k \in DOMAIN base \cup {BigEndian(h.Number, 8) : h \in hs} |->
        IF \E h \in hs : BigEndian(h.Number, 8) = k
        THEN LET h == CHOOSE x \in hs : BigEndian(x.Number, 8) = k
             IN RlpChtNode(HeaderHash(h), <<TdOf(h)>>)
        ELSE base[k]]

\* C10: when the headers processed between Reset and Commit have distinct
\* block numbers, the committed CHT root is that of the trie Reset opened
\* plus the entries of the set of those headers, whatever their order; the
\* root record is stored under (section, hash of the header processed last).
C10_ChtRootOrderInvariant ==
    (ChtCommitted /\ DistinctNumbers(chtSeen)) =>
        /\ ret.root = TrieRoot(ChtEntriesOver(chtBase[1], Range(chtSeen)))
        /\ GetChtRoot(db, chtSection, lastHash) = ret.root
        /\ chtSeen # <<>> => lastHash = HeaderHash(chtSeen[Len(chtSeen)])

\* two headers were processed in decreasing block-number order and committed:
\* the record is not keyed by the hash of the higher one
C10_CommittedOutOfOrder ==
    /\ ChtCommitted
    /\ Len(chtSeen) = 2
    /\ chtSeen[1].Number > chtSeen[2].Number
    /\ lastHash # HeaderHash(chtSeen[1])
    /\ ChtRootKey(chtSection, lastHash) \in DOMAIN db

\* C7: a Commit that returns without error has stored the trie nodes of its
\* root and the root record; that is, a failed batch write or a failed put of
\* the root record makes Commit return an error.
C7_WriteFailureIsReported ==
    [][(/\ ret'.op = "Commit" /\ ret'.err = "nil"
        /\ \/ ret'.backend = "cht" /\ ChtCommit(TRUE)
           \/ ret'.backend = "blt" /\ BltCommit(TRUE)) =>
          IF ret'.backend = "cht"
          THEN /\ ret'.root \in chtNodes'
               /\ GetChtRoot(db', chtSection, lastHash) = ret'.root
          ELSE /\ ret'.root \in bltNodes'
               /\ GetBloomTrieRoot(db', bltSection, sectionHeads[BloomTrieRatio - 1])
                    = ret'.root]_vars

\* the key under which the chain store holds the bits of position b over the
\* j-th parent section of the section in flight
ParentKey(b, j) == <<b, bltSection * BloomTrieRatio + j, sectionHeads[j]>>

ParentSlots == 0..(BloomTrieRatio - 1)
BitPositions == 0..(BloomBitLength - 1)

\* the raw bit-plane stored under ParentKey(b, j), decompressed
RawPlane(b, j) == DecompressBytes(bloomBits[ParentKey(b, j)], ParentSectionSize \div 8).out

\* byte p of the aggregate is byte p % w of the raw plane of parent section
\* p \div w, w the length of a raw plane
AggregatePlane(b) ==
    LET w == ParentSectionSize \div 8
        at == UNION {{j * w + i : i \in DOMAIN RawPlane(b, j).nz} : j \in ParentSlots}
    IN [len |-> BloomTrieRatio * w,
        nz |-> [p \in at |-> RawPlane(b, p \div w).nz[p % w]]]

\* C3: after a successful Bloom Trie Commit, for every bit position b the
\* value stored under (b, section) is the compressed concatenation, in
\* increasing parent-section order, of the decompressed bit-planes the chain
\* store holds for (b, section*ratio + j, sectionHeads[j]): decompressed to
\* the length of a Bloom Trie section it is that concatenation, and where
\* nothing is stored the concatenation has no bit set.
C3_BloomAggregation ==
    BltCommitted =>
        /\ ret.root = TrieRoot(bltTrie[1])
        /\ \A b \in BitPositions :
              /\ \A j \in ParentSlots : ParentKey(b, j) \in DOMAIN bloomBits
              /\ LET key == BloomBitKey(b, bltSection)
                 IN IF key \in DOMAIN bltTrie[1]
                    THEN /\ bltTrie[1][key] = CompressBytes(AggregatePlane(b))
                         /\ DecompressBytes(bltTrie[1][key], BloomTrieFrequency \div 8).out
                              = AggregatePlane(b)
                    ELSE DOMAIN AggregatePlane(b).nz = {}

\* a section of eight parent sections has been committed with a bit-plane
\* that has bits set in more than one of them
C3_CommittedSeveralChunks ==
    /\ BltCommitted
    /\ BloomTrieRatio > 1
    /\ \E b \in BitPositions :
          /\ BloomBitKey(b, bltSection) \in DOMAIN bltTrie[1]
          /\ Cardinality({j \in ParentSlots : DOMAIN RawPlane(b, j).nz # {}}) > 1

\* C4: after a successful Bloom Trie Commit the trie holds key (b, section)
\* exactly when the compressed bit-plane of b is non-empty, and no key of the
\* trie has an empty value.
C4_EmptyPlanesAbsent ==
    BltCommitted =>
        /\ \A b \in BitPositions :
              BloomBitKey(b, bltSection) \in DOMAIN bltTrie[1]
                  <=> CompressBytes(AggregatePlane(b)) # <<>>
        /\ \A k \in DOMAIN bltTrie[1] : bltTrie[1][k] # <<>>

\* a Commit has removed an entry whose bit-plane became empty
C4_EntryRemoved ==
    /\ BltCommitted
    /\ bltCycle.dropped # {}
    /\ \E b \in BitPositions :
          /\ BloomBitKey(b, bltSection) \in bltCycle.dropped
          /\ CompressBytes(AggregatePlane(b)) = <<>>

\* some bit-plane the Commit needs is missing or does not decompress
BltFetchFails ==
    \E b \in BitPositions, j \in ParentSlots :
        \/ ParentKey(b, j) \notin DOMAIN bloomBits
        \/ DecompressBytes(bloomBits[ParentKey(b, j)], ParentSectionSize \div 8).err

\* C6: a Bloom Trie Commit on an open trie, when a bit-plane of some
\* (bit, parent section) cannot be fetched or decompressed, returns an error
\* and writes neither trie nodes nor a root record.
C6_FetchFailureAbortsCommit ==
    [][(/\ ret'.backend = "blt" /\ ret'.op = "Commit"
        /\ bltTrie # <<>>
        /\ BltFetchFails
        /\ BltCommit(FALSE)) =>
          /\ ret'.err = "error"
          /\ db' = db
          /\ bltNodes' = bltNodes]_vars

\* a Commit has failed on stored bits that do not decompress
C6_CommitFailedOnDamagedBits ==
    /\ ret = Call("blt", "Commit", "error")
    /\ bltTrie # <<>>
    /\ \E b \in BitPositions, j \in ParentSlots :
          /\ ParentKey(b, j) \in DOMAIN bloomBits
          /\ bloomBits[ParentKey(b, j)] = DamagedBits

\* the trie a cycle of the section and heads in flight commits when nothing
\* fails: the trie of the previous section's root record (empty for section
\* 0), with every bit position's entry of this section set or removed
CleanCycleTrie ==
    LET prev == IF bltSection = 0 THEN ZeroHash
                ELSE GetBloomTrieRoot(db, bltSection - 1, bltCycle.head)
        base == IF prev = ZeroHash THEN EmptyTrie ELSE prev[2]
        set == {BloomBitKey(b, bltSection) :
                   b \in {x \in BitPositions : CompressBytes(AggregatePlane(x)) # <<>>}}
        cleared == {BloomBitKey(b, bltSection) : b \in BitPositions} \ set
    IN [k \in (DOMAIN base \ cleared) \cup set |->
           IF k \in set
           THEN CompressBytes(AggregatePlane(
                    CHOOSE b \in BitPositions : BloomBitKey(b, bltSection) = k))
           ELSE base[k]]

\* C8: a Bloom Trie cycle (Reset of the same section and previous head,
\* Process of the same headers, Commit) that succeeds after the same cycle
\* failed stores, under the key of the failed cycle, the root a cycle that
\* never failed stores.
C8_RetryStoresCleanRoot ==
    (BltCommitted /\ bltFailed # <<>> /\ bltFailed[1].retry) =>
        /\ bltSection = bltFailed[1].section
        /\ sectionHeads = bltFailed[1].heads
        /\ ret.root = TrieRoot(CleanCycleTrie)
        /\ GetBloomTrieRoot(db, bltSection, sectionHeads[BloomTrieRatio - 1]) = ret.root

\* the retry has committed after a Commit that failed with some bit
\* positions already written to the trie in flight
C8_RetriedAfterPartialCommit ==
    /\ BltCommitted
    /\ bltFailed # <<>>
    /\ bltFailed[1].retry
    /\ bltFailed[1].trie # bltFailed[1].base

\* C9: after Reset on the Bloom Trie backend every parent-section-head slot
\* is empty.
C9_ResetClearsSlots ==
    (ret.backend = "blt" /\ ret.op = "Reset") =>
        \A j \in ParentSlots : sectionHeads[j] = ZeroHash

LookupOps == {"GetChtRoot", "GetChtV2Root", "GetBloomTrieRoot"}

\* what the store holds under a key written out byte by byte, the zero hash
\* when it holds nothing
StoredUnder(prefix, sectionIdx, sectionHead) ==
    LET key == <<prefix>> \o BigEndian(sectionIdx, 8) \o <<sectionHead>>
    IN IF key \in DOMAIN db THEN db[key] ELSE ZeroHash

\* C11: GetChtV2Root(db, v2, head) returns what GetChtRoot(db, (v2+1)*8 - 1,
\* head) returns, the record under CHT section 7 for v2 = 0 and under CHT
\* section 15 for v2 = 1.
C11_V2SectionConversion ==
    [][\A v2 \in V2Sections, head \in RootsChtHeads :
          LookupChtV2Root(v2, head) =>
              /\ ret'.root = GetChtRoot(db, (v2 + 1) * (32768 \div 4096) - 1, head)
              /\ ret'.root = StoredUnder("chtRoot-", (v2 + 1) * 8 - 1, head)
              /\ v2 = 0 => ret'.root = StoredUnder("chtRoot-", 7, head)
              /\ v2 = 1 => ret'.root = StoredUnder("chtRoot-", 15, head)]_vars

\* GetChtV2Root of section 1 has returned the root a server committed for
\* its section 15
C11_ConvertedLookupHit ==
    /\ ret.op = "GetChtV2Root"
    /\ ret.root # ZeroHash
    /\ ret.root = StoredUnder("chtRoot-", 15, HeaderHash(Header(65535, 1)))
    /\ ret.root # StoredUnder("chtRoot-", 7, HeaderHash(Header(32767, 1)))

\* C12: a lookup of a root record returns without error and leaves the
\* store as it was; it returns the stored root when a record is stored for
\* the (section, head) asked for, and the zero hash when none is.
C12_LookupsNeverFail ==
    [][/\ ret'.op \in LookupOps => (ret'.err = "nil" /\ storeVars' = storeVars)
       /\ \A sec \in LookupSections, head \in RootsChtHeads :
             LookupChtRoot(sec, head) =>
                 ret'.root = StoredUnder("chtRoot-", sec, head)
       /\ \A sec \in V2Sections, head \in RootsChtHeads :
             LookupChtV2Root(sec, head) =>
                 ret'.root = StoredUnder("chtRoot-", 8 * sec + 7, head)
       /\ \A head \in SharedBltHeads :
             LookupBloomTrieRoot(0, head) =>
                 ret'.root = StoredUnder("bltRoot-", 0, head)]_vars

\* a lookup has found no record under a head while the store holds a record
\* of the same kind and section under another head
C12_LookupMissed ==
    /\ ret.op = "GetBloomTrieRoot"
    /\ ret.err = "nil"
    /\ ret.root = ZeroHash
    /\ \E head \in SharedBltHeads : StoredUnder("bltRoot-", 0, head) # ZeroHash
    /\ \E head \in SharedBltHeads : StoredUnder("bltRoot-", 0, head) = ZeroHash

\* the (section, head) pairs a root record may be stored for
RecordSections == LookupSections
RecordHeads == {ZeroHash} \cup RootsChtHeads \cup SharedBltHeads

\* every key a CHT root record, a Bloom Trie root record may be stored under
ChtRootKeys == {ChtRootKey(sec, head) : sec \in RecordSections, head \in RecordHeads}
BloomTrieRootKeys == {BloomTrieRootKey(sec, head) : sec \in RecordSections, head \in RecordHeads}

\* what the lookups of a kind return for every (section, head)
ChtRootsOf(store) ==
    [a \in RecordSections \X RecordHeads |-> GetChtRoot(store, a[1], a[2])]
BloomTrieRootsOf(store) ==
    [a \in RecordSections \X RecordHeads |-> GetBloomTrieRoot(store, a[1], a[2])]

\* C13: with both backends on one store and their calls interleaved, a CHT
\* Commit leaves what GetBloomTrieRoot returns for every (section, head) as
\* it was, a Bloom Trie Commit leaves what GetChtRoot returns for every
\* (section, head) as it was, and no CHT root key is a Bloom Trie root key.
C13_KeySpacesDisjoint ==
    [][db' # db =>
          /\ ret'.op = "Commit"
          /\ ret'.backend = "cht" => BloomTrieRootsOf(db') = BloomTrieRootsOf(db)
          /\ ret'.backend = "blt" => ChtRootsOf(db') = ChtRootsOf(db)
          /\ DOMAIN db' \cap ChtRootKeys \cap BloomTrieRootKeys = {}
          /\ ChtRootKeys \cap BloomTrieRootKeys = {}]_vars

\* a Commit has returned on a store that holds, for the same section and
\* head, a CHT root record and a Bloom Trie root record
C13_BothKindsStored ==
    /\ ret.op = "Commit"
    /\ ret.err = "nil"
    /\ \E sec \in RecordSections, head \in RecordHeads :
          /\ GetChtRoot(db, sec, head) # ZeroHash
          /\ GetBloomTrieRoot(db, sec, head) # ZeroHash

\* the header of block number n processed last in seq
LastWithNumber(seq, n) ==
    seq[CHOOSE i \in DOMAIN seq :
            /\ seq[i].Number = n
            /\ \A j \in DOMAIN seq : seq[j].Number = n => j <= i]

\* the encoded trie node of a header: rlp of its hash and total difficulty
ChtNodeOf(header) == <<"rlp", HeaderHash(header), BigBytes(TdOf(header))>>

\* C14: a CHT Process that returns leaves the trie in flight with the entry
\* 8-byte big-endian block number -> (hash, total difficulty) of the header
\* and every other key as it was; so the trie maps the block number of
\* every header processed since Reset to that header's (hash, total
\* difficulty).
C14_ProcessInsertsOneEntry ==
    [][\A h \in ChtHeaders :
          (ChtProcess(h) /\ ret'.err = "nil") =>
              LET key == BigEndian(h.Number, 8)
              IN /\ chtTrie # <<>> /\ chtTrie' # <<>>
                 /\ DOMAIN chtTrie'[1] = DOMAIN chtTrie[1] \cup {key}
                 /\ chtTrie'[1][key] = ChtNodeOf(h)
                 /\ \A k \in DOMAIN chtTrie[1] \ {key} : chtTrie'[1][k] = chtTrie[1][k]
                 /\ \A x \in Range(chtSeen') :
                       chtTrie'[1][BigEndian(x.Number, 8)]
                           = ChtNodeOf(LastWithNumber(chtSeen', x.Number))
                 /\ UNCHANGED <<db, chtNodes>>]_vars

\* Process has added a second entry to the trie in flight
C14_ProcessedTwoHeaders ==
    /\ ret = Call("cht", "Process", "nil")
    /\ Len(chtSeen) = 2
    /\ chtSeen[1].Number # chtSeen[2].Number
    /\ {BigEndian(x.Number, 8) : x \in Range(chtSeen)} \subseteq DOMAIN chtTrie[1]

\* the trie of the root record stored under (prefix, section - 1, head), the
\* empty trie for section 0 or when no such record is stored
PreviousTrie(prefix, section, head) ==
    IF section > 0 /\ StoredUnder(prefix, section - 1, head) # ZeroHash
    THEN StoredUnder(prefix, section - 1, head)[2]
    ELSE EmptyTrie

\* every entry of trie base whose key is not in keys is in trie t unchanged
KeepsEntries(base, keys, t) ==
    \A k \in DOMAIN base \ keys : k \in DOMAIN t /\ t[k] = base[k]

\* C15: Reset(section, lastSectionHead) of either backend opens the trie of
\* the root stored for (section - 1, lastSectionHead) when section > 0 and
\* the empty trie when section = 0; and the trie a Commit stores holds every
\* entry of the trie Reset opened that is not an entry of the section in
\* flight, so the committed trie of a section holds the entries of the
\* sections before it.
C15_ResetOpensPreviousRoot ==
    [][/\ \A a \in ResetArgs(ChtHeads) :
             (ret.backend = "cht" /\ ChtReset(a[1], a[2])) =>
                 /\ ret'.err = "nil"
                 /\ chtTrie' = <<PreviousTrie("chtRoot-", a[1], a[2])>>
                 /\ a[1] = 0 => chtTrie' = <<EmptyTrie>>
       /\ \A a \in ResetArgs(BltHeads) :
             (ret.backend = "blt" /\ BltReset(a[1], a[2])) =>
                 /\ ret'.err = "nil"
                 /\ bltTrie' = <<PreviousTrie("bltRoot-", a[1], a[2])>>
                 /\ a[1] = 0 => bltTrie' = <<EmptyTrie>>
       /\ (ret'.backend = "cht" /\ ret'.op = "Commit" /\ ret'.err = "nil") =>
             KeepsEntries(chtBase[1], {BigEndian(x.Number, 8) : x \in Range(chtSeen)},
                          ret'.root[2])
       /\ (ret'.backend = "blt" /\ ret'.op = "Commit" /\ ret'.err = "nil") =>
             KeepsEntries(bltCycle.base[1],
                          {BigEndian(b, 2) \o BigEndian(bltSection, 8) : b \in BitPositions},
                          ret'.root[2])]_vars

\* section 1 has been committed on the trie committed for section 0: the
\* trie holds entries of both sections
C15_CommittedCumulative ==
    /\ BltCommitted
    /\ bltSection = 1
    /\ bltCycle.base # <<>>
    /\ \E b \in BitPositions :
          /\ BigEndian(b, 2) \o BigEndian(0, 8) \in DOMAIN bltCycle.base[1]
          /\ BigEndian(b, 2) \o BigEndian(0, 8) \in DOMAIN ret.root[2]
    /\ \E b \in BitPositions : BigEndian(b, 2) \o BigEndian(1, 8) \in DOMAIN ret.root[2]

\* the number of the last block of parent section j of the section in flight
ParentLastBlock(j) ==
    bltSection * 32768 + (j + 1) * (IF clientMode THEN 32768 ELSE 4096) - 1

\* since Reset the last block of every parent section has been processed
BltAllParentsProcessed ==
    \A j \in ParentSlots : \E x \in Range(bltCycle.seen) : x.Number = ParentLastBlock(j)

\* C16: Bloom Trie Process of a header of the section in flight, with
\* num = number - section*32768, has a slot index num / parentSectionSize
\* below ratio, writes the header's hash into that slot exactly when
\* (num+1) % parentSectionSize = 0 and otherwise leaves all slots as they
\* were; and once the last block of every parent section has been processed
\* since Reset, slot j holds the hash of the header processed for block
\* section*32768 + (j+1)*parentSectionSize - 1.
C16_ProcessFillsSlots ==
    [][/\ \A h \in BltHeaders :
             (BltInOrder(h) /\ BltProcess(h)) =>
                 LET num == h.Number - bltSection * 32768
                     size == IF clientMode THEN 32768 ELSE 4096
                     ratio == 32768 \div size
                 IN /\ ret'.err = "nil"
                    /\ num >= 0 /\ num \div size < ratio
                    /\ DOMAIN sectionHeads = 0..(ratio - 1)
                    /\ IF (num + 1) % size = 0
                       THEN sectionHeads' =
                                [j \in 0..(ratio - 1) |->
                                    IF j = num \div size THEN HeaderHash(h)
                                    ELSE sectionHeads[j]]
                       ELSE sectionHeads' = sectionHeads
       /\ BltAllParentsProcessed' =>
             \A j \in ParentSlots :
                 sectionHeads'[j] =
                     HeaderHash(LastWithNumber(bltCycle'.seen, ParentLastBlock(j)'))]_vars

\* section 0 has been processed in full by a backend whose slot held the
\* head of section 1 before: the root record of section 1 is in the store
C16_SlotsOverwritten ==
    /\ ret = Call("blt", "Process", "nil")
    /\ bltSection = 0
    /\ BltAllParentsProcessed
    /\ \E head \in BltHeads : GetBloomTrieRoot(db, 1, head) # ZeroHash
    /\ \A j \in ParentSlots : sectionHeads[j] # ZeroHash

\* C17: a Bloom Trie Commit that returns without error adds or replaces
\* exactly one root record, the one keyed by (section, sectionHeads[ratio-1]),
\* and leaves every other record as it was; the root it stores is that of
\* the finalized trie in which every bit position of the section has been
\* written or removed, its nodes stored; and when the last block of every
\* parent section has been processed since Reset, the head in the key is the
\* hash of the header processed for block (section+1)*32768 - 1.
C17_CommitWritesOneRecord ==
    [][(ret'.backend = "blt" /\ ret'.op = "Commit" /\ ret'.err = "nil") =>
          LET ratio == IF clientMode THEN 1 ELSE 8
              key == <<"bltRoot-">> \o BigEndian(bltSection, 8) \o <<sectionHeads[ratio - 1]>>
          IN /\ DOMAIN db' = DOMAIN db \cup {key}
             /\ db'[key] = ret'.root
             /\ \A k \in DOMAIN db \ {key} : db'[k] = db[k]
             /\ ret'.root = TrieRoot(bltTrie'[1])
             /\ ret'.root \in bltNodes'
             /\ \A b \in BitPositions :
                   /\ \A j \in ParentSlots : ParentKey(b, j) \in DOMAIN bloomBits
                   /\ IF CompressBytes(AggregatePlane(b)) = <<>>
                      THEN BloomBitKey(b, bltSection) \notin DOMAIN ret'.root[2]
                      ELSE /\ BloomBitKey(b, bltSection) \in DOMAIN ret'.root[2]
                           /\ ret'.root[2][BloomBitKey(b, bltSection)]
                                = CompressBytes(AggregatePlane(b))
             /\ BltAllParentsProcessed =>
                   key[10] = HeaderHash(LastWithNumber(bltCycle.seen,
                                                        (bltSection + 1) * 32768 - 1))]_vars

\* a server has committed section 0 in full while the store holds the
\* record of a competing head of the section
C17_CommittedBesideOtherHead ==
    /\ BltCommitted
    /\ ~clientMode
    /\ BltAllParentsProcessed
    /\ GetBloomTrieRoot(db, bltSection, sectionHeads[7]) = ret.root
    /\ Cardinality(DOMAIN db) = 2

\* C18: once a Commit has returned without error the backend holds no trie
\* in flight: the committed trie is discarded, so that a Process or Commit
\* that follows without a Reset finds no trie to work on.
C18_TrieDiscardedAfterCommit ==
    /\ ChtCommitted => chtTrie = <<>>
    /\ BltCommitted => bltTrie = <<>>

====
